---- MODULE Spec2Model ----
(***************************************************************************)
(* Conditional samplers of the tree-structured recurrent SLDS               *)
(* (trslds/conditionals.py) and the Gibbs loop that drives them             *)
(* (examples/lorenz.py).                                                    *)
(*                                                                          *)
(* Matrices and vectors are kept as terms: every numpy expression of the    *)
(* source is one constructor <<"name", operands...>>, so two values are     *)
(* equal exactly when the same operations were applied to the same inputs.  *)
(* Indices are those of the source (0-based columns, 1-based tree nodes).   *)
(***************************************************************************)
EXTENDS Integers, Sequences, FiniteSets, TLC

\* Bounds of the model.
MaxT == 3
NTraj == 2
MaxDepth == 2

\* np.nan in a path array (a path that reached its leaf above the last level).
NaN == -1

Traj == 0..(NTraj - 1)

RECURSIVE Pow2(_)
Pow2(n) == IF n <= 0 THEN 1 ELSE 2 * Pow2(n - 1)

\* K, the number of leaves of a balanced tree of the given depth.
NumLeaves(dep) == Pow2(dep - 1)

\* leaf_path: column k is the root-to-leaf path of leaf k, one node index
\* (1-based within its level) per level.
LeafPath(dep) ==
    [d \in 0..(dep - 1) |->
        [k \in 0..(NumLeaves(dep) - 1) |-> (k \div Pow2(dep - 1 - d)) + 1]]

\* M[0, :].size for an array kept as a function of its column index.
Cols(M) == Cardinality(DOMAIN M)

VARIABLES
    \* arguments shared by pg_kalman and pg_kalman_batch
    depth, Z, paths, omega, R, As, Qs, C, S, U, Y, omegay,
    \* pg_kalman_batch: caller-owned buffers and the position of the call
    X, P, alphas, Lambdas, Qinvs, Sloc, idx, t, pc,
    \* per column of the shared buffers, the trajectory whose processing wrote
    \* it last (-1: as the caller handed it in)
    writer,
    \* pg_kalman on trajectory cfg.sidx: its arguments, buffers and position
    X1, P1, alphas1, Lambdas1, paths1, omega1, R1, Qinvs1, Sloc1, t1, pc1,
    trace1, Z1,
    \* what the caller chose: bern, the trajectory of the single call, which
    \* Cholesky factorization meets a non-positive-definite matrix (npd),
    \* how the single call's arguments differ from the batch's (variant)
    cfg,
    \* resample(no_samples, trslds): the sweep counter, the position in the
    \* loop, the calls made so far, how often each part of the model was
    \* resampled (gen), and the generations the Polya-Gamma variables were
    \* drawn from (omegaGen)
    no_samples, m, pcS, calls, gen, omegaGen,
    \* discrete_latent_recurrent_only: leaf_path, the inverses and
    \* log-determinants, log_p of the current trajectory, the state of the
    \* random generator, and the position of the call
    leaf_path, dQ, log_p, rng, didx, dt, dpc,
    \* hyper_planes: the arguments of a call and the Gaussian it samples
    hin, hout,
    \* emission_parameters and emission_parameters_spike_train: the
    \* arguments (obsv2: obsv with other values in the masked entries) and
    \* the statistics each call forms from them
    states, obsv, obsv2, mask, Omega, em, em2,
    \* pg_tree_posterior followed by the Polya-Gamma accumulation of the
    \* filter: the position, the trajectory at hand, the terms the filter
    \* accumulates per trajectory and column (pgterms), and the k the
    \* hyperplane sampler forms for the same children (hk)
    tpc, tidx, pgterms, hk

kalArgs == <<depth, Z, paths, omega, R, As, Qs, C, S, U, Y, omegay, cfg>>
sweepVars == <<no_samples, m, pcS, calls, gen, omegaGen>>
discVars == <<leaf_path, dQ, log_p, rng, didx, dt, dpc>>
hypVars == <<hin, hout>>
emVars == <<states, obsv, obsv2, mask, Omega, em, em2>>
treeVars == <<tpc, tidx, pgterms, hk>>
kalFrame == <<kalArgs, sweepVars, discVars, hypVars, emVars, treeVars>>
batchVars == <<X, P, alphas, Lambdas, Qinvs, Sloc, idx, t, pc, writer>>
singleVars == <<X1, P1, alphas1, Lambdas1, paths1, omega1, R1, Qinvs1, Sloc1,
                t1, pc1, trace1, Z1>>
vars == <<kalArgs, batchVars, singleVars, sweepVars, discVars, hypVars, emVars,
          treeVars>>

\* The parts of the state a specification does not use.
SweepIdle ==
    /\ no_samples = 0 /\ m = 0 /\ pcS = "idle" /\ calls = <<>>
    /\ gen = <<>> /\ omegaGen = <<>>
DiscIdle ==
    /\ leaf_path = <<>> /\ dQ = <<>> /\ log_p = <<>> /\ rng = 0
    /\ didx = 0 /\ dt = 0 /\ dpc = "idle"
HypIdle == hin = <<>> /\ hout = <<>>
EmIdle ==
    /\ states = <<>> /\ obsv = <<>> /\ obsv2 = <<>> /\ mask = <<>>
    /\ Omega = <<>> /\ em = <<>> /\ em2 = <<>>
TreeIdle ==
    /\ tpc = "idle" /\ tidx = 0 /\ pgterms = <<>> /\ hk = <<>>
FilterIdle ==
    /\ omega = <<>> /\ C = <<>> /\ S = <<>> /\ Y = <<>> /\ omegay = <<>>
    /\ cfg = <<>>
    /\ P = <<>> /\ alphas = <<>> /\ Lambdas = <<>> /\ Qinvs = <<>> /\ Sloc = <<>>
    /\ idx = 0 /\ t = 0 /\ pc = "idle" /\ writer = <<>>
    /\ X1 = <<>> /\ P1 = <<>> /\ alphas1 = <<>> /\ Lambdas1 = <<>>
    /\ paths1 = <<>> /\ omega1 = <<>> /\ R1 = <<>> /\ Qinvs1 = <<>>
    /\ Sloc1 = <<>> /\ t1 = 0 /\ pc1 = "idle" /\ trace1 = <<>> /\ Z1 = <<>>
ModelIdle ==
    /\ depth = 0 /\ Z = <<>> /\ paths = <<>> /\ R = <<>> /\ As = <<>>
    /\ Qs = <<>> /\ U = <<>> /\ X = <<>>

(***************************************************************************)
(* The arithmetic of one filter step and one smoother step.                 *)
(***************************************************************************)

\* BranchSign with the two cases exchanged.
BranchSignFlipped(fin) == IF fin % 2 = 1 THEN -1 ELSE 1

\* k = 0.5 * (fin % 2 == 1) - 0.5 * (fin % 2 == 0), kept as 2k.
BranchSign(fin) == IF fin % 2 = 1 THEN 1 ELSE -1

\* The Polya-Gamma pseudo-observations of one time step: per level d the
\* terms added to J and temp_mu, none when the next path entry is NaN.
PGTerms(pcol, ocol, Rr, dep) ==
    [d \in 0..(dep - 2) |->
        IF pcol[d + 1] = NaN
        THEN <<"skip">>
        ELSE <<"pg", BranchSign(pcol[d + 1]), ocol[d], Rr[d][pcol[d] - 1]>>]

\* Prior without the depth == 1 case.
PriorAlwaysPG(xt, pt, pcol, ocol, Rr, dep) ==
    LET pg == PGTerms(pcol, ocol, Rr, dep)
    IN [alpha |-> <<"alpha", pt, xt, pg>>,
        Lambda |-> <<"inv_Pinv_plus_J", pt, pg>>]

\* alpha and Lambda of one step: the filtered mean and covariance themselves
\* when depth == 1, otherwise the information-form update.
Prior(xt, pt, pcol, ocol, Rr, dep) ==
    IF dep = 1
    THEN [alpha |-> xt, Lambda |-> pt]
    ELSE LET pg == PGTerms(pcol, ocol, Rr, dep)
         IN [alpha |-> <<"alpha", pt, xt, pg>>,
             Lambda |-> <<"inv_Pinv_plus_J", pt, pg>>]

XPrior(A, alpha, u) == <<"x_prior", A, alpha, u>>
PPrior(A, Lambda, Q) == <<"P_prior", A, Lambda, Q>>
Gain(Pp, Cc, Ss) == <<"K", Pp, Cc, Ss>>
Correct(xp, Kg, yt, Cc) == <<"corr", xp, Kg, yt, Cc>>
PTemp(Kg, Cc, Pp) == <<"P_temp", Kg, Cc, Pp>>

\* SymJit left out: the matrix as computed.
NoSymJit(M) == M

\* (M + M.T) / 2 + 1e-8 * iden
SymJit(M) == <<"symjit", M>>

\* Bernoulli observations: the pseudo-noise and the pseudo-observation.
BernS(oy) == <<"diag_inv", oy>>
BernY(y, oy) == <<"kt_over_omegay", y, oy>>

\* The emission noise and the observation used at one step.
ObsS(bern, Scur, oy) == IF bern THEN BernS(oy) ELSE Scur
ObsY(bern, y, oy) == IF bern THEN BernY(y, oy) ELSE y

\* Prediction and correction from (alpha, Lambda): X[:, t+1] and P[:, :, t+1].
Corrected(pr, A, Q, u, yt, Cc, Ss) ==
    LET xp == XPrior(A, pr.alpha, u)
        Pp == PPrior(A, pr.Lambda, Q)
        Kg == Gain(Pp, Cc, Ss)
    IN [x |-> Correct(xp, Kg, yt, Cc),
        P |-> SymJit(PTemp(Kg, Cc, Pp))]

Chol(M) == <<"chol", M>>
LastDraw(xf, Pl, e) == <<"last", xf, Chol(Pl), e>>
SmoothCov(Lambda, A, Q) == <<"Pn", Lambda, A, Q>>
SmoothMean(Pn, Lambda, alpha, A, Qinv, xnext, u) ==
    <<"mu_n", Pn, Lambda, alpha, A, Qinv, xnext, u>>
BackDraw(mu, Pn, e) == <<"draw", mu, Chol(Pn), e>>

\* One backward draw of column t from the stored alpha, Lambda and the
\* next column.
Smoothed(alpha, Lambda, A, Q, Qinv, xnext, u, e) ==
    LET Pn == SmoothCov(Lambda, A, Q)
        mu == SmoothMean(Pn, Lambda, alpha, A, Qinv, xnext, u)
    IN BackDraw(mu, SymJit(Pn), e)

\* CholeskyOutcome with the error caught and a fallback factor substituted.
CholeskyFallback(bad, next) == next

\* np.linalg.cholesky raises LinAlgError on a matrix that is not positive
\* definite; nothing catches it.
CholeskyOutcome(bad, next) == IF bad THEN "raised" ELSE next

QInverse(Q) == <<"Qinv", Q>>

\* eps = npr.normal(size=X.shape): the innovations of one trajectory.
Eps(i, col) == <<"eps", i, col>>

\* ZLabel one step late: int(Z[t + 1]).
ZLabelNext(zs, col) == zs[col + 1]

\* int(Z[t]): the leaf whose A and Q step t uses.
ZLabel(zs, col) == zs[col]

\* ForwardEnd one step short: range(X[0, :].size - 2).
ForwardEndShort(Tn) == Tn - 2

\* The forward loop: range(X[0, :].size - 1).
ForwardEnd(Tn) == Tn - 1

\* WriteCol as the column of the step itself: X[:, t], P[:, :, t].
WriteColSame(col) == col

\* The column forward step t writes: X[:, t + 1], P[:, :, t + 1].
WriteCol(col) == col + 1

\* BackStart one column short: range(T - 3, -1, -1).
BackStartSkip(Tn) == Tn - 3

\* The order of the backward loop: range(T - 2, -1, -1).
BackStart(Tn) == Tn - 2
BackNext(col) == col - 1

(***************************************************************************)
(* Arguments.                                                               *)
(***************************************************************************)

Variants == {"same", "params", "buffers", "zlast"}

NpdNone == <<"none", 0, 0>>
NpdQ == <<"Q", 0, 0>>

\* A trajectory as the caller hands it in: the first column and whatever the
\* last sweep left in the others.
XIn(fl, i, Tn) ==
    [col \in 0..(Tn - 1) |-> IF col = 0 THEN <<"x0", i>> ELSE <<"xin", fl, i, col>>]
PIn(fl, n) ==
    [col \in 0..(n - 1) |-> IF col = 0 THEN <<"P0">> ELSE <<"Pin", fl, col>>]
AlphasIn(fl, n) == [col \in 0..(n - 1) |-> <<"alphain", fl, col>>]
LambdasIn(fl, n) == [col \in 0..(n - 1) |-> <<"Lambdain", fl, col>>]

ZIn(z0, i, Tn, dep) == [col \in 0..(Tn - 1) |-> (z0 + i + col) % NumLeaves(dep)]
PathsIn(zs, dep) ==
    [d \in 0..(dep - 1) |-> [col \in DOMAIN zs |-> LeafPath(dep)[d][zs[col]]]]
\* Another path array of the same shape (NaN where the tree has one node).
PathsOther(zs, dep) ==
    [d \in 0..(dep - 1) |->
        [col \in DOMAIN zs |->
            IF NumLeaves(dep) = 1 THEN NaN
            ELSE LeafPath(dep)[d][(zs[col] + 1) % NumLeaves(dep)]]]
OmegaIn(fl, i, Tn, levels) ==
    [d \in 0..(levels - 1) |-> [col \in 0..(Tn - 1) |-> <<"omega", fl, i, d, col>>]]
RIn(fl, levels) ==
    [d \in 0..(levels - 1) |-> [n \in 0..(Pow2(d) - 1) |-> <<"R", fl, d, n>>]]

TOf(T0, Tb, i) == IF i % 2 = 0 THEN T0 ELSE Tb
MaxOf(a, b) == IF a >= b THEN a ELSE b

KalInit ==
    \E dep \in 1..MaxDepth, T0 \in 1..MaxT, Tb \in 1..MaxT, ysh \in BOOLEAN,
       be \in BOOLEAN, si \in Traj, va \in Variants :
    \E z0 \in 0..(NumLeaves(dep) - 1) :
    \E np \in {NpdNone, NpdQ}
              \cup {<<"pos", i, col>> : i \in Traj, col \in 0..(MaxT - 1)} :
        LET fl == IF va = "buffers" THEN 1 ELSE 0
            pf == IF va = "params" THEN 1 ELSE 0
            n == MaxOf(T0, Tb)
        IN
        \* a failing factorization lies in a trajectory, and is followed in
        \* the single call on that trajectory; one difference at a time
        /\ np[1] = "pos" => (np[3] < TOf(T0, Tb, np[2]) /\ si = np[2])
        /\ np = NpdQ => si = 0
        /\ np # NpdNone => (~ysh /\ ~be /\ va = "same")
        /\ va # "same" => (~ysh /\ si = 0)
        /\ va = "zlast" => dep >= 2
        /\ depth = dep
        /\ cfg = [bern |-> be, sidx |-> si, npd |-> np, variant |-> va]
        /\ Z = [i \in Traj |-> ZIn(z0, i, TOf(T0, Tb, i), dep)]
        /\ paths = [i \in Traj |-> PathsIn(ZIn(z0, i, TOf(T0, Tb, i), dep), dep)]
        /\ omega = [i \in Traj |-> OmegaIn(0, i, TOf(T0, Tb, i), dep - 1)]
        /\ R = RIn(0, dep - 1)
        /\ As = [k \in 0..(NumLeaves(dep) - 1) |-> <<"As", k>>]
        /\ Qs = [k \in 0..(NumLeaves(dep) - 1) |-> <<"Qs", k>>]
        /\ C = <<"C">>
        /\ S = <<"S">>
        /\ U = [i \in Traj |-> [col \in 0..(TOf(T0, Tb, i) - 1) |-> <<"U", i, col>>]]
        /\ Y = [i \in Traj |->
                 [col \in 0..((IF ysh THEN 1 ELSE TOf(T0, Tb, i)) - 1) |-> <<"Y", i, col>>]]
        /\ omegay = [i \in Traj |->
                      [col \in 0..(TOf(T0, Tb, i) - 1) |-> <<"omegay", i, col>>]]
        /\ X = [i \in Traj |-> XIn(0, i, TOf(T0, Tb, i))]
        /\ P = PIn(0, n)
        /\ alphas = AlphasIn(0, n)
        /\ Lambdas = LambdasIn(0, n)
        /\ Qinvs = <<>>
        /\ Sloc = <<"S">>
        /\ idx = 0
        /\ t = 0
        /\ pc = "start"
        /\ writer = [P |-> [col \in 0..(n - 1) |-> 0 - 1],
                     AL |-> [col \in 0..(n - 1) |-> 0 - 1]]
        /\ X1 = XIn(fl, si, TOf(T0, Tb, si))
        /\ P1 = PIn(fl, n)
        /\ alphas1 = AlphasIn(fl, n)
        /\ Lambdas1 = LambdasIn(fl, n)
        /\ paths1 = IF pf = 1
                    THEN PathsOther(ZIn(z0, si, TOf(T0, Tb, si), dep), dep)
                    ELSE PathsIn(ZIn(z0, si, TOf(T0, Tb, si), dep), dep)
        /\ omega1 = OmegaIn(pf, si, TOf(T0, Tb, si), dep - 1 + pf)
        /\ R1 = RIn(pf, dep - 1 + pf)
        /\ Qinvs1 = <<>>
        /\ Sloc1 = <<"S">>
        /\ t1 = 0
        /\ pc1 = "start"
        /\ trace1 = <<>>
        \* the labels of the single call: another leaf in the last column
        /\ Z1 = IF va = "zlast"
                THEN [ZIn(z0, si, TOf(T0, Tb, si), dep)
                          EXCEPT ![TOf(T0, Tb, si) - 1] = (@ + 1) % NumLeaves(dep)]
                ELSE ZIn(z0, si, TOf(T0, Tb, si), dep)
        /\ SweepIdle /\ DiscIdle /\ HypIdle /\ EmIdle /\ TreeIdle

(***************************************************************************)
(* pg_kalman on trajectory cfg.sidx.                                        *)
(***************************************************************************)

T1 == Cols(X1)

\* iden and Qinvs: one Cholesky factorization per leaf.
K1Precompute ==
    /\ pc1 = "start"
    /\ pc1' = CholeskyOutcome(cfg.npd = NpdQ, "forward")
    /\ Qinvs1' = IF pc1' = "raised" THEN Qinvs1
                 ELSE [k \in DOMAIN Qs |-> QInverse(Qs[k])]
    /\ UNCHANGED <<X1, P1, alphas1, Lambdas1, paths1, omega1, R1, Sloc1, t1, trace1,
                   Z1>>
    /\ UNCHANGED <<kalFrame,batchVars>>

\* One iteration of the forward loop. alphas and Lambdas are stored before
\* the observation is read, so a Y with too few columns raises IndexError
\* after they were written.
K1Forward ==
    /\ pc1 = "forward"
    /\ t1 < ForwardEnd(T1)
    /\ LET i == cfg.sidx
           pcol == [d \in DOMAIN paths1 |-> paths1[d][t1]]
           ocol == [d \in DOMAIN omega1 |-> omega1[d][t1]]
           pr == Prior(X1[t1], P1[t1], pcol, ocol, R1, depth)
           z == ZLabel(Z1, t1)
           hasY == t1 \in DOMAIN Y[i]
           Ss == ObsS(cfg.bern, Sloc1, omegay[i][t1])
           yt == ObsY(cfg.bern, Y[i][t1], omegay[i][t1])
           co == Corrected(pr, As[z], Qs[z], U[i][t1], yt, C, Ss)
       IN /\ alphas1' = [alphas1 EXCEPT ![t1] = pr.alpha]
          /\ Lambdas1' = [Lambdas1 EXCEPT ![t1] = pr.Lambda]
          /\ IF hasY
             THEN /\ Sloc1' = Ss
                  /\ X1' = [X1 EXCEPT ![WriteCol(t1)] = co.x]
                  /\ P1' = [P1 EXCEPT ![WriteCol(t1)] = co.P]
                  /\ t1' = t1 + 1
                  /\ pc1' = "forward"
                  /\ trace1' = Append(trace1, <<"forward", t1>>)
             ELSE /\ pc1' = "raised"
                  /\ UNCHANGED <<Sloc1, X1, P1, t1, trace1>>
    /\ UNCHANGED <<paths1, omega1, R1, Qinvs1, Z1>>
    /\ UNCHANGED <<kalFrame,batchVars>>

\* eps is drawn and the last column is sampled from the filtered mean and
\* the Cholesky factor of the last covariance.
K1Last ==
    /\ pc1 = "forward"
    /\ t1 = ForwardEnd(T1)
    /\ LET i == cfg.sidx
           last == T1 - 1
           out == CholeskyOutcome(cfg.npd = <<"pos", i, last>>,
                                  IF BackStart(T1) >= 0 THEN "backward" ELSE "done")
       IN /\ pc1' = out
          /\ IF out = "raised"
             THEN UNCHANGED <<X1, t1, trace1>>
             ELSE /\ X1' = [X1 EXCEPT ![last] = LastDraw(X1[last], P1[last], Eps(i, last))]
                  /\ t1' = BackStart(T1)
                  /\ trace1' = Append(trace1, <<"sample", last>>)
    /\ UNCHANGED <<P1, alphas1, Lambdas1, paths1, omega1, R1, Qinvs1, Sloc1, Z1>>
    /\ UNCHANGED <<kalFrame,batchVars>>

\* One iteration of the backward loop.
K1Backward ==
    /\ pc1 = "backward"
    /\ LET i == cfg.sidx
           z == ZLabel(Z1, t1)
           nxt == BackNext(t1)
           out == CholeskyOutcome(cfg.npd = <<"pos", i, t1>>,
                                  IF nxt >= 0 THEN "backward" ELSE "done")
       IN /\ pc1' = out
          /\ IF out = "raised"
             THEN UNCHANGED <<X1, t1, trace1>>
             ELSE /\ X1' = [X1 EXCEPT ![t1] =
                              Smoothed(alphas1[t1], Lambdas1[t1], As[z], Qs[z],
                                       Qinvs1[z], X1[t1 + 1], U[i][t1], Eps(i, t1))]
                  /\ t1' = nxt
                  /\ trace1' = Append(trace1, <<"sample", t1>>)
    /\ UNCHANGED <<P1, alphas1, Lambdas1, paths1, omega1, R1, Qinvs1, Sloc1, Z1>>
    /\ UNCHANGED <<kalFrame,batchVars>>

SingleEnded == pc1 \in {"done", "raised"}

(***************************************************************************)
(* pg_kalman_batch on the list of trajectories.                             *)
(***************************************************************************)

TB == Cols(X[idx])

\* BatchLastCol as the last column of the shared buffer, P[:, :, -1].
BatchLastColOfBuffer(Tn) == Cols(P) - 1

\* The column of P whose Cholesky factor samples the last column.
BatchLastCol(Tn) == Tn - 1

\* After the last backward draw of a trajectory: the next one, or return.
BatchAdvance(i) == IF i + 1 < NTraj THEN "forward" ELSE "done"

KBPrecompute ==
    /\ SingleEnded
    /\ pc = "start"
    /\ pc' = CholeskyOutcome(cfg.npd = NpdQ, "forward")
    /\ Qinvs' = IF pc' = "raised" THEN Qinvs
                ELSE [k \in DOMAIN Qs |-> QInverse(Qs[k])]
    /\ UNCHANGED <<X, P, alphas, Lambdas, Sloc, idx, t, writer>>
    /\ UNCHANGED <<kalFrame,singleVars>>

KBForward ==
    /\ pc = "forward"
    /\ t < ForwardEnd(TB)
    /\ LET pcol == [d \in DOMAIN paths[idx] |-> paths[idx][d][t]]
           ocol == [d \in DOMAIN omega[idx] |-> omega[idx][d][t]]
           pr == Prior(X[idx][t], P[t], pcol, ocol, R, depth)
           z == ZLabel(Z[idx], t)
           hasY == t \in DOMAIN Y[idx]
           Ss == ObsS(cfg.bern, Sloc, omegay[idx][t])
           yt == ObsY(cfg.bern, Y[idx][t], omegay[idx][t])
           co == Corrected(pr, As[z], Qs[z], U[idx][t], yt, C, Ss)
       IN /\ alphas' = [alphas EXCEPT ![t] = pr.alpha]
          /\ Lambdas' = [Lambdas EXCEPT ![t] = pr.Lambda]
          /\ IF hasY
             THEN /\ Sloc' = Ss
                  /\ X' = [X EXCEPT ![idx][WriteCol(t)] = co.x]
                  /\ P' = [P EXCEPT ![WriteCol(t)] = co.P]
                  /\ t' = t + 1
                  /\ pc' = "forward"
                  /\ writer' = [writer EXCEPT !.AL[t] = idx, !.P[WriteCol(t)] = idx]
             ELSE /\ pc' = "raised"
                  /\ writer' = [writer EXCEPT !.AL[t] = idx]
                  /\ UNCHANGED <<Sloc, X, P, t>>
    /\ UNCHANGED <<Qinvs, idx>>
    /\ UNCHANGED <<kalFrame,singleVars>>

KBLast ==
    /\ pc = "forward"
    /\ t = ForwardEnd(TB)
    /\ LET last == TB - 1
           out == CholeskyOutcome(cfg.npd = <<"pos", idx, last>>,
                                  IF BackStart(TB) >= 0 THEN "backward"
                                  ELSE BatchAdvance(idx))
       IN /\ pc' = out
          /\ IF out = "raised"
             THEN UNCHANGED <<X, t, idx>>
             ELSE /\ X' = [X EXCEPT ![idx][last] =
                             LastDraw(X[idx][last], P[BatchLastCol(TB)], Eps(idx, last))]
                  /\ IF out = "backward"
                     THEN t' = BackStart(TB) /\ idx' = idx
                     ELSE t' = 0 /\ idx' = idx + 1
    /\ UNCHANGED <<P, alphas, Lambdas, Qinvs, Sloc, writer>>
    /\ UNCHANGED <<kalFrame,singleVars>>

KBBackward ==
    /\ pc = "backward"
    /\ LET z == ZLabel(Z[idx], t)
           nxt == BackNext(t)
           out == CholeskyOutcome(cfg.npd = <<"pos", idx, t>>,
                                  IF nxt >= 0 THEN "backward" ELSE BatchAdvance(idx))
       IN /\ pc' = out
          /\ IF out = "raised"
             THEN UNCHANGED <<X, t, idx>>
             ELSE /\ X' = [X EXCEPT ![idx][t] =
                             Smoothed(alphas[t], Lambdas[t], As[z], Qs[z],
                                      Qinvs[z], X[idx][t + 1], U[idx][t], Eps(idx, t))]
                  /\ IF out = "backward"
                     THEN t' = nxt /\ idx' = idx
                     ELSE t' = 0 /\ idx' = idx + 1
    /\ UNCHANGED <<P, alphas, Lambdas, Qinvs, Sloc, writer>>
    /\ UNCHANGED <<kalFrame,singleVars>>

KalNext ==
    \/ K1Precompute
    \/ K1Forward
    \/ K1Last
    \/ K1Backward
    \/ KBPrecompute
    \/ KBForward
    \/ KBLast
    \/ KBBackward

SpecKalman == KalInit /\ [][KalNext]_vars

Spec == SpecKalman

(***************************************************************************)
(* Properties of the filter/smoother.                                       *)
(***************************************************************************)

Sidx == cfg.sidx
BufFl == IF cfg.variant = "buffers" THEN 1 ELSE 0
IsSymJit(M) == M[1] = "symjit"

\* The batch has finished with trajectory i: returned from it or raised in it.
BatchEndedOn(i) == idx > i \/ (pc = "raised" /\ idx = i)
RaisedAlike == (pc = "raised" /\ idx = Sidx) <=> (pc1 = "raised")

\* C3: the batch's result for a trajectory is that of pg_kalman run on that
\* trajectory alone with the same arguments, and every column of P (t >= 1),
\* alphas and Lambdas the batch reads while it processes a trajectory was
\* written while it processed that same trajectory.
C3_BatchIsSinglePerTrajectory ==
    /\ (cfg.variant = "same" /\ BatchEndedOn(Sidx)) =>
          (X[Sidx] = X1 /\ RaisedAlike)
    /\ (pc = "forward" /\ t >= 1) => writer.P[t] = idx
    /\ (pc = "forward" /\ t = TB - 1 /\ BatchLastCol(TB) >= 1) =>
          writer.P[BatchLastCol(TB)] = idx
    /\ pc = "backward" => writer.AL[t] = idx

\* A shorter trajectory processed after a longer one: the buffers hold the
\* first one's columns when the second one starts.
C3_Witness ==
    /\ pc = "done"
    /\ cfg.variant = "same"
    /\ Sidx = 1
    /\ Cols(X[0]) = 3
    /\ Cols(X[1]) = 2
    /\ depth = 2
    /\ writer.P[2] = 0

\* The steps pg_kalman takes on a trajectory of Tn columns, in order.
ExpectedTrace(Tn) ==
    [i \in 1..(2 * Tn - 1) |->
        IF i <= Tn - 1 THEN <<"forward", i - 1>> ELSE <<"sample", 2 * Tn - 1 - i>>]
IsPrefix(s, r) == Len(s) <= Len(r) /\ \A i \in 1..Len(s) : s[i] = r[i]

\* The filtered mean of a column, from what the forward pass stored.
Filtered1(col) ==
    IF col = 0 THEN <<"x0", Sidx>>
    ELSE LET p == col - 1
             z == Z1[p]
         IN Corrected([alpha |-> alphas1[p], Lambda |-> Lambdas1[p]],
                      As[z], Qs[z], U[Sidx][p],
                      ObsY(cfg.bern, Y[Sidx][p], omegay[Sidx][p]), C,
                      ObsS(cfg.bern, S, omegay[Sidx][p])).x

\* C4: forward steps 0..T-2 in increasing order, all before any draw; then
\* column T-1 and columns T-2..0 in decreasing order, each once; the draw of
\* column t uses the sampled column t+1 and the alpha and Lambda that forward
\* step t stored.
C4_ForwardThenBackward ==
    /\ IsPrefix(trace1, ExpectedTrace(T1))
    /\ pc1 = "done" =>
        /\ trace1 = ExpectedTrace(T1)
        /\ X1[T1 - 1] = LastDraw(Filtered1(T1 - 1), P1[T1 - 1], Eps(Sidx, T1 - 1))
        /\ \A col \in 0..(T1 - 2) :
            LET z == Z1[col]
                pcol == [d \in DOMAIN paths1 |-> paths1[d][col]]
                ocol == [d \in DOMAIN omega1 |-> omega1[d][col]]
                pr == Prior(Filtered1(col), P1[col], pcol, ocol, R1, depth)
            IN /\ alphas1[col] = pr.alpha
               /\ Lambdas1[col] = pr.Lambda
               /\ X1[col + 1][1] \in {"last", "draw"}
               /\ X1[col] = Smoothed(alphas1[col], Lambdas1[col], As[z], Qs[z],
                                     Qinvs1[z], X1[col + 1], U[Sidx][col],
                                     Eps(Sidx, col))

C4_Witness == pc1 = "done" /\ T1 >= 3 /\ depth = 2

\* C5: with depth == 1 the prior of every forward step is the filtered mean
\* and covariance themselves, in both functions, and the result does not
\* depend on omega, paths or R.
C5_DepthOneIsPlainKalman ==
    depth = 1 =>
        /\ pc1 = "forward" =>
              \A col \in 0..(t1 - 1) :
                  alphas1[col] = X1[col] /\ Lambdas1[col] = P1[col]
        /\ pc = "forward" =>
              \A col \in 0..(t - 1) :
                  alphas[col] = X[idx][col] /\ Lambdas[col] = P[col]
        /\ (cfg.variant = "params" /\ BatchEndedOn(Sidx)) =>
              (X[Sidx] = X1 /\ RaisedAlike)

C5_Witness ==
    /\ depth = 1
    /\ cfg.variant = "params"
    /\ omega1 # omega[Sidx] /\ paths1 # paths[Sidx] /\ R1 # R
    /\ pc = "done" /\ pc1 = "done"
    /\ T1 >= 2

\* A Cholesky factorization is about to meet a matrix that is not positive
\* definite.
CholFails1 ==
    \/ pc1 = "start" /\ cfg.npd = NpdQ
    \/ pc1 = "forward" /\ t1 = T1 - 1 /\ cfg.npd = <<"pos", Sidx, t1>>
    \/ pc1 = "backward" /\ cfg.npd = <<"pos", Sidx, t1>>
CholFailsB ==
    \/ pc = "start" /\ SingleEnded /\ cfg.npd = NpdQ
    \/ pc = "forward" /\ t = TB - 1 /\ cfg.npd = <<"pos", idx, t>>
    \/ pc = "backward" /\ cfg.npd = <<"pos", idx, t>>

\* C7: a non-positive-definite matrix met by a Cholesky factorization ends the
\* call raised at that step, with nothing sampled from it, and nothing is
\* written after the call has raised.
C7_CholeskyFailureSurfaces ==
    [][/\ CholFails1 => (pc1' = "raised" /\ X1' = X1)
       /\ CholFailsB => (pc' = "raised" /\ X' = X)
       /\ pc1 = "raised" => UNCHANGED singleVars
       /\ pc = "raised" => UNCHANGED batchVars]_vars

\* The smoothing covariance of the first trajectory's column 0 is not positive
\* definite: the batch has raised and the next trajectory is as it came in.
C7_Witness ==
    /\ pc = "raised"
    /\ cfg.npd = <<"pos", 0, 0>>
    /\ Cols(X[0]) >= 2
    /\ X[0][1][1] \in {"last", "draw"}
    /\ X[0][0] = <<"x0", 0>>
    /\ X[1] = XIn(0, 1, Cols(X[1]))

\* C8 (as claimed): a call that fails on arrays whose shapes do not agree has
\* written none of the caller's arrays.
C8_ShapeErrorBeforeAnyWrite ==
    (pc1 = "raised" /\ cfg.npd = NpdNone) =>
        /\ X1 = XIn(BufFl, Sidx, T1)
        /\ P1 = PIn(BufFl, Cols(P1))
        /\ alphas1 = AlphasIn(BufFl, Cols(alphas1))
        /\ Lambdas1 = LambdasIn(BufFl, Cols(Lambdas1))

WrittenP1(col) == P1[col] # PIn(BufFl, Cols(P1))[col]
WrittenL1(col) == Lambdas1[col] # LambdasIn(BufFl, Cols(Lambdas1))[col]
WrittenP(col) == P[col] # PIn(0, Cols(P))[col]
WrittenL(col) == Lambdas[col] # LambdasIn(0, Cols(Lambdas))[col]

\* C10 (as claimed): every covariance the filter stores or factorizes has
\* passed through the symmetrize-and-jitter step: P[:, :, t+1], the Lambda
\* stored in Lambdas[:, :, t], and Pn.
C10_EveryCovarianceSymJit ==
    /\ \A col \in DOMAIN P1 : WrittenP1(col) => IsSymJit(P1[col])
    /\ \A col \in DOMAIN Lambdas1 : WrittenL1(col) => IsSymJit(Lambdas1[col])
    /\ \A col \in DOMAIN X1 : X1[col][1] = "draw" => IsSymJit(X1[col][3][2])

\* C10 (amended): P[:, :, t+1] and Pn are symmetrized and jittered; the Lambda
\* stored in Lambdas[:, :, t] is not: it is the inverse as computed, or with
\* depth == 1 the copy of P[:, :, t], which is the caller's matrix at t = 0.
C10_OnlyPAndPnSymJit ==
    /\ \A col \in DOMAIN P1 : WrittenP1(col) => IsSymJit(P1[col])
    /\ \A col \in DOMAIN X1 : X1[col][1] = "draw" => IsSymJit(X1[col][3][2])
    /\ \A col \in DOMAIN Lambdas1 :
          WrittenL1(col) => (IsSymJit(Lambdas1[col]) <=> (depth = 1 /\ col >= 1))
    /\ \A col \in DOMAIN P : WrittenP(col) => IsSymJit(P[col])
    /\ \A i \in Traj : \A col \in DOMAIN X[i] :
          X[i][col][1] = "draw" => IsSymJit(X[i][col][3][2])
    /\ \A col \in DOMAIN Lambdas :
          WrittenL(col) => (IsSymJit(Lambdas[col]) <=> (depth = 1 /\ col >= 1))

C10_Witness ==
    /\ depth = 2
    /\ pc1 = "done"
    /\ T1 >= 3
    /\ IsSymJit(P1[1])
    /\ ~IsSymJit(Lambdas1[1])
    /\ X1[0][1] = "draw"

(***************************************************************************)
(* resample(no_samples, trslds): the Gibbs loop of examples/lorenz.py.      *)
(***************************************************************************)

MaxSweeps == 6

\* The Polya-Gamma variables are drawn from the current trajectories, paths,
\* hyperplanes and emission weights: the generations they now rest on.
PolyaGammaRefresh(g) == [X |-> g.X, Z |-> g.Z, R |-> g.R, C |-> g.C]

\* One conditional resample replaces one part of the model and nothing else.
Resampled(g, part) == [g EXCEPT ![part] = @ + 1]

\* for m in tqdm(range(no_samples)): the next statement after the loop body.
LoopNext(done) == IF done < no_samples THEN "emission" ELSE "done"

SweepInit ==
    /\ no_samples \in 0..MaxSweeps
    /\ m = 0
    /\ pcS = "init_pg"
    /\ calls = <<>>
    /\ gen = [X |-> 0, Z |-> 0, R |-> 0, C |-> 0, A |-> 0]
    /\ omegaGen = [X |-> 0 - 1, Z |-> 0 - 1, R |-> 0 - 1, C |-> 0 - 1]
    /\ FilterIdle /\ ModelIdle /\ DiscIdle /\ HypIdle /\ EmIdle /\ TreeIdle

sweepFrame == <<kalArgs, batchVars, singleVars, discVars, hypVars, emVars,
                treeVars>>

InitializePolyaGamma ==
    /\ pcS = "init_pg"
    /\ omegaGen' = PolyaGammaRefresh(gen)
    /\ calls' = Append(calls, "polya_gamma")
    /\ pcS' = LoopNext(0)
    /\ UNCHANGED <<no_samples, m, gen>>
    /\ UNCHANGED sweepFrame

SampleEmission ==
    /\ pcS = "emission"
    /\ gen' = Resampled(gen, "C")
    /\ calls' = Append(calls, "emission")
    /\ pcS' = "hyperplanes"
    /\ UNCHANGED <<no_samples, m, omegaGen>>
    /\ UNCHANGED sweepFrame

SampleHyperplanes ==
    /\ pcS = "hyperplanes"
    /\ gen' = Resampled(gen, "R")
    /\ calls' = Append(calls, "hyperplanes")
    /\ pcS' = "dynamics"
    /\ UNCHANGED <<no_samples, m, omegaGen>>
    /\ UNCHANGED sweepFrame

SampleDynamics ==
    /\ pcS = "dynamics"
    /\ gen' = Resampled(gen, "A")
    /\ calls' = Append(calls, "dynamics")
    /\ pcS' = "discrete"
    /\ UNCHANGED <<no_samples, m, omegaGen>>
    /\ UNCHANGED sweepFrame

SampleDiscreteLatent ==
    /\ pcS = "discrete"
    /\ gen' = Resampled(gen, "Z")
    /\ calls' = Append(calls, "discrete")
    /\ pcS' = "continuous"
    /\ UNCHANGED <<no_samples, m, omegaGen>>
    /\ UNCHANGED sweepFrame

SampleContinuousLatent ==
    /\ pcS = "continuous"
    /\ gen' = Resampled(gen, "X")
    /\ calls' = Append(calls, "continuous")
    /\ m' = m + 1
    /\ pcS' = LoopNext(m + 1)
    /\ UNCHANGED <<no_samples, omegaGen>>
    /\ UNCHANGED sweepFrame

SweepNext ==
    \/ InitializePolyaGamma
    \/ SampleEmission
    \/ SampleHyperplanes
    \/ SampleDynamics
    \/ SampleDiscreteLatent
    \/ SampleContinuousLatent

SpecSweep == SweepInit /\ [][SweepNext]_vars

SweepOrder ==
    <<"polya_gamma", "emission", "hyperplanes", "dynamics", "discrete", "continuous">>
ExpectedCalls(n) ==
    [i \in 1..(Len(SweepOrder) * n) |-> SweepOrder[((i - 1) % Len(SweepOrder)) + 1]]

\* C1 (as claimed): every sweep makes the six calls in order, the Polya-Gamma
\* refresh first, so a sampler that runs after m completed sweeps never
\* consumes Polya-Gamma variables drawn before the trajectories and paths of
\* sweep m were resampled.
C1_EverySweepRefreshesPolyaGamma ==
    /\ IsPrefix(calls, ExpectedCalls(no_samples + 1))
    /\ pcS \in {"emission", "hyperplanes", "continuous"} =>
          (omegaGen.X >= m /\ omegaGen.Z >= m)

(***************************************************************************)
(* discrete_latent_recurrent_only.                                          *)
(***************************************************************************)

\* The global numpy generator: seeded once, each draw advances it.
NextRng(r) == (5 * r + 3) % 8

\* npr.multinomial(1, post_p[:, t], size=1): a one-hot row over the K leaves.
Multinomial(r, K) == [k \in 0..(K - 1) |-> IF k = r % K THEN 1 ELSE 0]

\* np.where(choice[0, :] == 1)[0][0]
WhereOne(choice) ==
    CHOOSE k \in DOMAIN choice :
        choice[k] = 1 /\ \A j \in DOMAIN choice : choice[j] = 1 => k <= j

\* leaf_path[:, k]
Column(M, k) == [d \in DOMAIN M |-> M[d][k]]

\* The tree-traversal term of leaf k at one state, and the transition term.
TreeLogP(Rr, lp, k, x) == <<"tree", Rr, Column(lp, k), x>>
LogMvn(xnext, A, x, u, Qi, Qld) == <<"log_mvn", xnext, <<"mu_temp", A, x, u>>, Qi, Qld>>

\* M[:, :-1]
ButLast(M) == [j \in 0..(Cols(M) - 2) |-> M[j]]

\* Temp with the columns not shifted: X[idx][:, :-1].
TempNoShift(xs) == ButLast(xs)

\* temp = X[idx][:, 1:]
Temp(xs) == [j \in 0..(Cols(xs) - 2) |-> xs[j + 1]]

\* utils.log_mvn(temp, mu_temp, Qinv[:, :, k], Qlogdet[k]): one term per
\* column of temp, mu_temp built from X[idx][:, :-1] and U[idx][:, :-1].
LogMvnCols(xs, us, Ak, Qi, Qld) ==
    [j \in DOMAIN Temp(xs) |->
        LogMvn(Temp(xs)[j], Ak, ButLast(xs)[j], ButLast(us)[j], Qi, Qld)]

\* log_p[k, t] of one trajectory: log_p[k, :-1] += the transition terms.
LogP(Rr, lp, k, col, xs, us, A, Qd) ==
    IF col \in DOMAIN ButLast(xs)
    THEN <<"plus", TreeLogP(Rr, lp, k, xs[col]),
           LogMvnCols(xs, us, A[k], Qd.Qinv[k], Qd.Qlogdet[k])[col]>>
    ELSE TreeLogP(Rr, lp, k, xs[col])

\* DrawCols without the last column: range(T - 1).
DrawColsButLast(Tn) == Tn - 1

\* for t in range(X[idx][0, :].size): the columns a leaf is drawn for.
DrawCols(Tn) == Tn

\* The statement after the draws of trajectory i.
DiscAdvance(i) == IF i + 1 < NTraj THEN "score" ELSE "done"

\* leaf_path with every column equal to the first one.
LeafPathDup(dep) ==
    [d \in 0..(dep - 1) |-> [k \in 0..(NumLeaves(dep) - 1) |-> LeafPath(dep)[d][0]]]

DiscInit ==
    \E dep \in 1..MaxDepth, T0 \in 1..MaxT, Tb \in 1..MaxT, seed \in 0..7,
       dup \in BOOLEAN :
        /\ depth = dep
        /\ leaf_path = IF dup THEN LeafPathDup(dep) ELSE LeafPath(dep)
        /\ X = [i \in Traj |-> XIn(0, i, TOf(T0, Tb, i))]
        /\ U = [i \in Traj |-> [col \in 0..(TOf(T0, Tb, i) - 1) |-> <<"U", i, col>>]]
        /\ As = [k \in 0..(NumLeaves(dep) - 1) |-> <<"As", k>>]
        /\ Qs = [k \in 0..(NumLeaves(dep) - 1) |-> <<"Qs", k>>]
        /\ R = RIn(0, dep - 1)
        \* Z and paths as an earlier sweep left them
        /\ Z = [i \in Traj |-> ZIn(0, i, TOf(T0, Tb, i), dep)]
        /\ paths = [i \in Traj |-> PathsOther(ZIn(0, i, TOf(T0, Tb, i), dep), dep)]
        /\ dQ = <<>>
        /\ log_p = <<>>
        /\ rng = seed
        /\ didx = 0
        /\ dt = 0
        /\ dpc = "start"
        /\ FilterIdle /\ SweepIdle /\ HypIdle /\ EmIdle /\ TreeIdle

discFrame == <<omega, C, S, Y, omegay, cfg, batchVars, singleVars, sweepVars,
               hypVars, emVars, treeVars>>
discArgs == <<depth, leaf_path, X, U, As, Qs, R>>

\* Qinv = Q + 0 and Qlogdet, filled leaf by leaf.
DiscPrecompute ==
    /\ dpc = "start"
    /\ dQ' = [Qinv |-> [k \in DOMAIN Qs |-> <<"inv", Qs[k]>>],
              Qlogdet |-> [k \in DOMAIN Qs |-> <<"log_det", Qs[k]>>]]
    /\ dpc' = "score"
    /\ UNCHANGED <<Z, paths, log_p, rng, didx, dt>>
    /\ UNCHANGED <<discArgs, discFrame>>

\* log_p, post_unnorm and post_p of trajectory didx.
DiscScore ==
    /\ dpc = "score"
    /\ LET K == Cols(Qs)
           Tn == Cols(X[didx])
       IN /\ log_p' = [k \in 0..(K - 1) |->
                         [col \in 0..(Tn - 1) |->
                             LogP(R, leaf_path, k, col, X[didx], U[didx], As, dQ)]]
          /\ IF DrawCols(Tn) > 0
             THEN dpc' = "draw" /\ didx' = didx
             ELSE dpc' = DiscAdvance(didx) /\ didx' = didx + 1
    /\ dt' = 0
    /\ UNCHANGED <<Z, paths, dQ, rng>>
    /\ UNCHANGED <<discArgs, discFrame>>

\* One iteration of the loop over t: a leaf is drawn, its path and its index
\* are stored.
DiscDraw ==
    /\ dpc = "draw"
    /\ LET K == Cols(Qs)
           Tn == Cols(X[didx])
           choice == Multinomial(rng, K)
           leaf == WhereOne(choice)
       IN /\ paths' = [paths EXCEPT ![didx] =
                         [d \in DOMAIN @ |->
                             [@[d] EXCEPT ![dt] = Column(leaf_path, leaf)[d]]]]
          /\ Z' = [Z EXCEPT ![didx][dt] = WhereOne(choice)]
          /\ rng' = NextRng(rng)
          /\ IF dt + 1 < DrawCols(Tn)
             THEN dt' = dt + 1 /\ dpc' = "draw" /\ didx' = didx
             ELSE dt' = 0 /\ dpc' = DiscAdvance(didx) /\ didx' = didx + 1
    /\ UNCHANGED <<dQ, log_p>>
    /\ UNCHANGED <<discArgs, discFrame>>

DiscNext ==
    \/ DiscPrecompute
    \/ DiscScore
    \/ DiscDraw

SpecDiscrete == DiscInit /\ [][DiscNext]_vars

\* The leaves whose path is the given column: decoding a path.
Decode(pcol) == {k \in 0..(Cols(Qs) - 1) : Column(leaf_path, k) = pcol}
DistinctColumns ==
    \A j, k \in 0..(Cols(Qs) - 1) :
        j # k => Column(leaf_path, j) # Column(leaf_path, k)

\* C2: when the call has returned, for every trajectory and every column, the
\* last one included, Z is a leaf index, the path is that leaf's column of
\* leaf_path and, the columns being distinct, the path decodes to that leaf.
C2_PathAndZSameLeaf ==
    dpc = "done" =>
        \A i \in Traj : \A col \in DOMAIN X[i] :
            /\ Z[i][col] \in 0..(Cols(Qs) - 1)
            /\ Column(paths[i], col) = Column(leaf_path, Z[i][col])
            /\ DistinctColumns => Decode(Column(paths[i], col)) = {Z[i][col]}

\* Returned, with a leaf other than the incoming one drawn in the last column
\* of a three-column trajectory of a tree with two leaves or more.
C2_Witness ==
    /\ dpc = "done"
    /\ depth >= 2
    /\ DistinctColumns
    /\ Cols(X[0]) = 3
    /\ Z[0][2] # ZIn(0, 0, 3, depth)[2]
    /\ Z[0][0] # Z[0][1]

\* The trajectory log_p was last computed for.
ScoredTraj == IF dpc = "draw" THEN didx ELSE didx - 1
Scored == dpc = "draw" \/ (dpc \in {"score", "done"} /\ didx > 0)

\* C11: log_p of leaf k at the last column T-1 is the tree-traversal term
\* alone; at every column t in 0..T-2 it is the tree-traversal term at
\* X[:, t] plus the log-density of the transition from X[:, t], with input
\* U[:, t], to X[:, t+1] under leaf k's A and Q.
C11_TransitionTermButAtLastStep ==
    Scored =>
        LET i == ScoredTraj
            Tn == Cols(X[i])
            tree(k, col) == <<"tree", R, Column(leaf_path, k), X[i][col]>>
            trans(k, col) ==
                <<"log_mvn", X[i][col + 1],
                  <<"mu_temp", As[k], X[i][col], U[i][col]>>,
                  <<"inv", Qs[k]>>, <<"log_det", Qs[k]>>>>
        IN \A k \in 0..(Cols(Qs) - 1) :
               /\ DOMAIN log_p[k] = 0..(Tn - 1)
               /\ log_p[k][Tn - 1] = tree(k, Tn - 1)
               /\ \A col \in 0..(Tn - 2) :
                      log_p[k][col] = <<"plus", tree(k, col), trans(k, col)>>

\* A trajectory of three columns scored for a tree of two leaves: two columns
\* with a transition term, the last one without.
C11_Witness ==
    /\ dpc = "draw"
    /\ depth = 2
    /\ Cols(X[didx]) = 3
    /\ log_p[1][1][1] = "plus"
    /\ log_p[1][2][1] = "tree"

(***************************************************************************)
(* hyper_planes, for a hyperplane of one coordinate: every array is a       *)
(* sequence of numbers and every matrix a number. Fractions are pairs       *)
(* <<numerator, denominator>> in lowest terms.                              *)
(***************************************************************************)

MaxObs == 2
MaxPrec == 3

RECURSIVE Gcd(_, _)
Gcd(a, b) == IF b = 0 THEN a ELSE Gcd(b, a % b)
Abs(a) == IF a < 0 THEN 0 - a ELSE a
Frac(n, d) == LET g == Gcd(Abs(n), d) IN <<n \div g, d \div g>>

RECURSIVE SumSeq(_)
SumSeq(s) == IF s = <<>> THEN 0 ELSE Head(s) + SumSeq(Tail(s))

\* npr.multivariate_normal(mean, cov): the Gaussian that is sampled.
Gaussian(mean, cov) == [done |-> TRUE, mean |-> mean, cov |-> cov]

\* 2k for k = z % 2 - 0.5
TwiceK(z) == 2 * (z % 2) - 1

\* The draw_prior branch: the prior mean with prior_precision as covariance.
HyperPrior(prior_mu, prior_precision) ==
    Gaussian(Frac(prior_mu, 1), Frac(prior_precision, 1))

\* The posterior branch.
HyperPosterior(w, x, z, prior_mu, prior_precision) ==
    LET J2 == 2 * prior_precision * prior_mu
              + SumSeq([i \in 1..Len(x) |-> x[i] * TwiceK(z[i])])
        precision == SumSeq([i \in 1..Len(x) |-> w[i] * x[i] * x[i]])
        den == precision + prior_precision
    IN Gaussian(Frac(J2, 2 * den), Frac(1, den))

HyperData(n) ==
    [w : [1..n -> {1, 2}], x : [1..n -> {1, 2}], z : [1..n -> {1, 2}]]

HypInit ==
    /\ \E n \in 0..MaxObs, mu \in (0 - 1)..1, prec \in 1..MaxPrec, dp \in BOOLEAN :
       \E data \in HyperData(n) :
           hin = [w |-> data.w, x |-> data.x, z |-> data.z, prior_mu |-> mu,
                  prior_precision |-> prec, draw_prior |-> dp]
    /\ hout = [done |-> FALSE, mean |-> <<0, 1>>, cov |-> <<0, 1>>]
    /\ FilterIdle /\ ModelIdle /\ SweepIdle /\ DiscIdle /\ EmIdle /\ TreeIdle

HyperPlanes ==
    /\ ~hout.done
    /\ hout' = IF hin.draw_prior
               THEN HyperPrior(hin.prior_mu, hin.prior_precision)
               ELSE HyperPosterior(hin.w, hin.x, hin.z, hin.prior_mu,
                                   hin.prior_precision)
    /\ UNCHANGED <<hin, kalArgs, batchVars, singleVars, sweepVars, discVars, emVars,
                   treeVars>>

HypNext == HyperPlanes

SpecHyper == HypInit /\ [][HypNext]_vars

\* C6 (as claimed): with draw_prior the sampled Gaussian has mean prior_mu and
\* covariance the inverse of prior_precision, the Gaussian the posterior
\* branch gives for zero observations.
C6_DrawPriorIsThePrior ==
    (hout.done /\ hin.draw_prior) =>
        /\ hout.mean = Frac(hin.prior_mu, 1)
        /\ hout.cov = Frac(1, hin.prior_precision)
        /\ hout = HyperPosterior(<<>>, <<>>, <<>>, hin.prior_mu, hin.prior_precision)

(***************************************************************************)
(* emission_parameters and emission_parameters_spike_train, for a latent    *)
(* state of one coordinate and one observed coordinate. A float is a record *)
(* that says whether it is NaN; arithmetic propagates NaN as IEEE does.     *)
(* The lists hold one array per trajectory; an array is a function of its   *)
(* 0-based column. hstack gives a sequence of stacked columns.              *)
(***************************************************************************)

Num(v) == [nan |-> FALSE, v |-> v]
NotANumber == [nan |-> TRUE, v |-> 0]
NAdd(a, b) == IF a.nan \/ b.nan THEN NotANumber ELSE Num(a.v + b.v)
NMul(a, b) == IF a.nan \/ b.nan THEN NotANumber ELSE Num(a.v * b.v)

RECURSIVE NSum(_)
NSum(s) == IF s = <<>> THEN Num(0) ELSE NAdd(Head(s), NSum(Tail(s)))

ToSeq(f) == [i \in 1..Cols(f) |-> f[i - 1]]

RECURSIVE HstackFrom(_, _)
HstackFrom(list, i) ==
    IF i >= Cols(list) THEN <<>> ELSE ToSeq(list[i]) \o HstackFrom(list, i + 1)

\* np.hstack over a list of arrays
Hstack(list) == HstackFrom(list, 0)

\* states[idx][:, 1:]
DropFirst(f) == [c \in 0..(Cols(f) - 2) |-> f[c + 1]]

\* np.vstack((X, ones)): every stacked column gets the affine 1
WithOnes(xs) == [i \in 1..Len(xs) |-> <<xs[i], Num(1)>>]

\* BoolIndex with the mask not applied.
BoolIndexAll(rows, bm) == rows

\* rows[boolean_mask]: the entries whose mask entry is true, in order
RECURSIVE BoolIndex(_, _)
BoolIndex(rows, bm) ==
    IF rows = <<>> THEN <<>>
    ELSE (IF Head(bm) THEN <<Head(rows)>> ELSE <<>>)
         \o BoolIndex(Tail(rows), Tail(bm))

StackedStates(st) == WithOnes(Hstack([i \in DOMAIN st |-> DropFirst(st[i])]))

\* emission_parameters up to the call of utils.compute_ss_mniw: the X and Y
\* handed to it.
EmissionParametersArgs(st, ob, mk) ==
    LET boolean_mask == Hstack(mk)
    IN [st |-> "ok",
        X |-> BoolIndex(StackedStates(st), boolean_mask),
        Y |-> BoolIndex(Hstack(ob), boolean_mask)]

\* emission_parameters_spike_train with mu = 0, Sigma = I and N = 1, up to the
\* natural parameters of the Gaussian it samples for the neuron: Lambda_post
\* as <<[0,0], [0,1], [1,1]>> entries and 2 * temp_mu. Y[:, 0] raises
\* IndexError when no column is kept.
SpikeTrainPosterior(st, ob, Om, mk) ==
    LET boolean_mask == Hstack(mk)
        Xk == BoolIndex(StackedStates(st), boolean_mask)
        Yk == BoolIndex(Hstack(ob), boolean_mask)
        Wk == BoolIndex(Hstack(Om), boolean_mask)
        n == Len(Xk)
        twiceYc(i) == NAdd(NMul(Num(2), Yk[i]), Num(0 - 1))
    IN IF n = 0
       THEN [st |-> "IndexError", X |-> Xk, Y |-> Yk, W |-> Wk,
             Lambda_post |-> <<>>, temp_mu |-> <<>>]
       ELSE [st |-> "ok", X |-> Xk, Y |-> Yk, W |-> Wk,
             Lambda_post |->
                 <<NAdd(Num(1), NSum([i \in 1..n |->
                       NMul(Wk[i], NMul(Xk[i][1], Xk[i][1]))])),
                   NSum([i \in 1..n |-> NMul(Wk[i], Xk[i][1])]),
                   NAdd(Num(1), NSum([i \in 1..n |-> Wk[i]]))>>,
             temp_mu |->
                 <<NSum([i \in 1..n |-> NMul(Xk[i][1], twiceYc(i))]),
                   NSum([i \in 1..n |-> twiceYc(i)])>>]

Fills == {NotANumber, Num(7)}

NotCalled == [st |-> "none"]

EmInit ==
    /\ \E T0 \in 1..MaxT, Tb \in 1..MaxT, y0 \in 0..1, fill \in Fills :
       \E mk \in [Traj -> UNION {[0..(n - 2) -> BOOLEAN] : n \in 1..MaxT}] :
           /\ \A i \in Traj : Cols(mk[i]) = TOf(T0, Tb, i) - 1
           /\ mask = mk
           /\ states = [i \in Traj |-> [c \in 0..(TOf(T0, Tb, i) - 1) |->
                                            Num(((i + 2 * c) % 3) + 1)]]
           /\ obsv = [i \in Traj |-> [c \in 0..(TOf(T0, Tb, i) - 2) |->
                                          Num((y0 + i + c) % 2)]]
           /\ obsv2 = [i \in Traj |-> [c \in 0..(TOf(T0, Tb, i) - 2) |->
                                           IF mk[i][c] THEN Num((y0 + i + c) % 2)
                                           ELSE fill]]
           /\ Omega = [i \in Traj |-> [c \in 0..(TOf(T0, Tb, i) - 2) |->
                                           Num(1 + ((i + c) % 2))]]
    /\ em = [gauss |-> NotCalled, spike |-> NotCalled]
    /\ em2 = [gauss |-> NotCalled, spike |-> NotCalled]
    /\ FilterIdle /\ ModelIdle /\ SweepIdle /\ DiscIdle /\ HypIdle /\ TreeIdle

emFrame == <<states, obsv, obsv2, mask, Omega, kalArgs, batchVars, singleVars,
             sweepVars, discVars, hypVars, treeVars>>

\* The call on the observations and the call on the observations whose
\* masked entries hold other values.
EmissionParameters ==
    /\ em.gauss.st = "none"
    /\ em' = [em EXCEPT !.gauss = EmissionParametersArgs(states, obsv, mask)]
    /\ em2' = [em2 EXCEPT !.gauss = EmissionParametersArgs(states, obsv2, mask)]
    /\ UNCHANGED emFrame

EmissionParametersSpikeTrain ==
    /\ em.spike.st = "none"
    /\ em' = [em EXCEPT !.spike = SpikeTrainPosterior(states, obsv, Omega, mask)]
    /\ em2' = [em2 EXCEPT !.spike = SpikeTrainPosterior(states, obsv2, Omega, mask)]
    /\ UNCHANGED emFrame

EmNext == EmissionParameters \/ EmissionParametersSpikeTrain

SpecEmission == EmInit /\ [][EmNext]_vars

\* The time steps <<trajectory, column>> of the stacked observations, and how
\* many unmasked steps come before a step in stacking order.
AllSteps == UNION {{<<j, d>> : d \in DOMAIN mask[j]} : j \in DOMAIN mask}
KeptSteps == {s \in AllSteps : mask[s[1]][s[2]]}
KeptBefore(j, d) ==
    Cardinality({s \in KeptSteps : s[1] < j \/ (s[1] = j /\ s[2] < d)})

\* Row p of the kept X and Y belongs to the p-th unmasked step: the latent
\* state of column d + 1 and the observation of column d.
AlignedXY(res, ob) ==
    /\ Len(res.X) = Cardinality(KeptSteps)
    /\ Len(res.Y) = Cardinality(KeptSteps)
    /\ \A s \in KeptSteps :
           LET p == KeptBefore(s[1], s[2]) + 1
           IN /\ res.X[p] = <<states[s[1]][s[2] + 1], Num(1)>>
              /\ res.Y[p] = ob[s[1]][s[2]]

AlignedW(res) ==
    /\ Len(res.W) = Cardinality(KeptSteps)
    /\ \A s \in KeptSteps :
           res.W[KeptBefore(s[1], s[2]) + 1] = Omega[s[1]][s[2]]

NoNaN(seq) == \A i \in 1..Len(seq) : ~seq[i].nan

\* C9: in both emission samplers a masked time step contributes nothing. The
\* observation, the latent state of column t+1 and the Polya-Gamma variable
\* of the step are dropped together, the kept X, Y and W stay aligned to the
\* same steps, and the result is the same (and free of NaN) whatever the
\* masked observation entries hold.
C9_MaskedStepsContributeNothing ==
    /\ em.gauss.st # "none" =>
           /\ em.gauss = em2.gauss
           /\ AlignedXY(em.gauss, obsv) /\ AlignedXY(em2.gauss, obsv2)
           /\ NoNaN(em2.gauss.Y)
    /\ em.spike.st # "none" =>
           /\ em.spike = em2.spike
           /\ AlignedXY(em.spike, obsv) /\ AlignedXY(em2.spike, obsv2)
           /\ AlignedW(em.spike) /\ AlignedW(em2.spike)
           /\ NoNaN(em2.spike.Lambda_post) /\ NoNaN(em2.spike.temp_mu)

\* Both samplers have run on observations with a masked NaN entry that is
\* followed by an unmasked step.
C9_Witness ==
    /\ em.gauss.st = "ok" /\ em.spike.st = "ok"
    /\ \E s \in AllSteps :
           /\ ~mask[s[1]][s[2]]
           /\ obsv2[s[1]][s[2]].nan
           /\ KeptBefore(s[1], s[2]) < Cardinality(KeptSteps)
           /\ KeptBefore(s[1], s[2]) > 0

(***************************************************************************)
(* pg_tree_posterior, followed by the Polya-Gamma terms the forward pass of *)
(* pg_kalman accumulates from its result and by the k hyper_planes forms    *)
(* for the same child nodes. Trees of up to MaxTreeDepth levels; a path may *)
(* end above the last level (NaN below its leaf).                           *)
(***************************************************************************)

MaxTreeDepth == 3

\* np.matmul(R[d][:-1, index], states[idx][:, t]) + R[d][-1, index]
Potential(Rcol, x) == <<"psi", Rcol, x>>

\* v.flatten() in row-major order.
FlattenC(M, rows, Tn) == [i \in 0..(rows * Tn - 1) |-> M[i \div Tn][i % Tn]]

\* v.flatten(order='F')
FlattenF(M, rows, Tn) == [i \in 0..(rows * Tn - 1) |-> M[i % rows][i \div rows]]

\* out.reshape((depth - 1, T), order='F')
ReshapeF(out, rows, Tn) ==
    [d \in 0..(rows - 1) |-> [col \in 0..(Tn - 1) |-> out[d + col * rows]]]

\* pypolyagamma.pgdrawvpar(ppgs, b, v, out): out[i] is a draw of PG(b[i], v[i]).
PgDrawV(b, vflat) == [i \in DOMAIN vflat |-> <<"pgdraw", b[i], vflat[i], i>>]

\* omega[idx] of one trajectory.
TreeOmega(Rr, xs, ps, dep) ==
    LET rows == dep - 1
        Tn == Cols(xs)
        b == [i \in 0..(Tn * rows - 1) |-> 1]
        v == [d \in 0..(rows - 1) |->
                 [col \in 0..(Tn - 1) |-> Potential(Rr[d][ps[d][col] - 1], xs[col])]]
    IN ReshapeF(PgDrawV(b, FlattenF(v, rows, Tn)), rows, Tn)

\* int(path[idx][d, t] - 1) raises ValueError on NaN.
PathIndexFails(ps, dep) ==
    \E d \in 0..(dep - 2) : \E col \in DOMAIN ps[d] : ps[d][col] = NaN

\* The path of the leaf zs[col], cut off (NaN) in its last `cut` levels at the
\* odd columns: the leaf lies above the last level there.
PathsCut(zs, dep, cut) ==
    [d \in 0..(dep - 1) |->
        [col \in DOMAIN zs |->
            IF col % 2 = 1 /\ d > dep - 1 - cut THEN NaN
            ELSE LeafPath(dep)[d][zs[col]]]]

TreeInit ==
    /\ \E dep \in 1..MaxTreeDepth, T0 \in 1..MaxT, Tb \in 1..MaxT :
       \E z0 \in 0..(NumLeaves(dep) - 1), cut \in 0..MaxOf(dep - 2, 0) :
           /\ depth = dep
           /\ X = [i \in Traj |-> XIn(0, i, TOf(T0, Tb, i))]
           /\ Z = [i \in Traj |-> ZIn(z0, i, TOf(T0, Tb, i), dep)]
           /\ paths = [i \in Traj |->
                         PathsCut(ZIn(z0, i, TOf(T0, Tb, i), dep), dep, cut)]
           /\ R = RIn(0, dep - 1)
           \* omega as the last sweep left it
           /\ omega = [i \in Traj |-> OmegaIn(0, i, TOf(T0, Tb, i), dep - 1)]
    /\ As = <<>> /\ Qs = <<>> /\ U = <<>> /\ C = <<>> /\ S = <<>> /\ Y = <<>>
    /\ omegay = <<>> /\ cfg = <<>>
    /\ P = <<>> /\ alphas = <<>> /\ Lambdas = <<>> /\ Qinvs = <<>> /\ Sloc = <<>>
    /\ idx = 0 /\ t = 0 /\ pc = "idle" /\ writer = <<>>
    /\ X1 = <<>> /\ P1 = <<>> /\ alphas1 = <<>> /\ Lambdas1 = <<>>
    /\ paths1 = <<>> /\ omega1 = <<>> /\ R1 = <<>> /\ Qinvs1 = <<>>
    /\ Sloc1 = <<>> /\ t1 = 0 /\ pc1 = "idle" /\ trace1 = <<>> /\ Z1 = <<>>
    /\ tpc = "tree"
    /\ tidx = 0
    /\ pgterms = [i \in Traj |-> <<>>]
    /\ hk = [i \in Traj |-> <<>>]
    /\ SweepIdle /\ DiscIdle /\ HypIdle /\ EmIdle

treeFrame == <<depth, Z, paths, R, As, Qs, C, S, U, Y, omegay, cfg, X, P, alphas,
               Lambdas, Qinvs, Sloc, idx, t, pc, writer, singleVars, sweepVars,
               discVars, hypVars, emVars>>

\* The statement after the body of a loop over the trajectories.
TreeAdvance(i, again, after) == IF i + 1 < NTraj THEN again ELSE after
TreeNextIdx(i) == IF i + 1 < NTraj THEN i + 1 ELSE 0

\* pg_tree_posterior: one iteration of the loop over the trajectories.
PgTreePosterior ==
    /\ tpc = "tree"
    /\ IF PathIndexFails(paths[tidx], depth)
       THEN tpc' = "raised" /\ UNCHANGED <<omega, tidx>>
       ELSE /\ omega' = [omega EXCEPT ![tidx] =
                            TreeOmega(R, X[tidx], paths[tidx], depth)]
            /\ tpc' = TreeAdvance(tidx, "tree", "filter")
            /\ tidx' = TreeNextIdx(tidx)
    /\ UNCHANGED <<pgterms, hk, treeFrame>>

\* pg_kalman, forward pass on one trajectory: the terms each step t in
\* 0..T-2 adds to J and temp_mu, from paths[:, t], omega[:, t] and R.
FilterAccumulate ==
    /\ tpc = "filter"
    /\ pgterms' = [pgterms EXCEPT ![tidx] =
           [col \in 0..(Cols(X[tidx]) - 2) |->
               IF depth = 1 THEN <<>>
               ELSE PGTerms([d \in DOMAIN paths[tidx] |-> paths[tidx][d][col]],
                            [d \in DOMAIN omega[tidx] |-> omega[tidx][d][col]],
                            R, depth)]]
    /\ tpc' = TreeAdvance(tidx, "filter", "hyper")
    /\ tidx' = TreeNextIdx(tidx)
    /\ UNCHANGED <<omega, hk, treeFrame>>

\* hyper_planes: k = z % 2 - 0.5 for the child nodes z one trajectory took at
\* each level, kept as 2k.
HyperPlanesK ==
    /\ tpc = "hyper"
    /\ hk' = [hk EXCEPT ![tidx] =
           [d \in 0..(depth - 2) |->
               [col \in DOMAIN X[tidx] |->
                   IF paths[tidx][d + 1][col] = NaN THEN <<"none">>
                   ELSE <<"k2", TwiceK(paths[tidx][d + 1][col])>>]]]
    /\ tpc' = TreeAdvance(tidx, "hyper", "done")
    /\ tidx' = TreeNextIdx(tidx)
    /\ UNCHANGED <<omega, pgterms, treeFrame>>

TreeNext ==
    \/ PgTreePosterior
    \/ FilterAccumulate
    \/ HyperPlanesK

SpecTree == TreeInit /\ [][TreeNext]_vars

\* pg_tree_posterior has stored omega[i].
TreeDone(i) ==
    \/ tpc \in {"filter", "hyper", "done"}
    \/ (tpc \in {"tree", "raised"} /\ tidx > i)

\* C12: omega[i][d, t] is the draw whose parameter is the potential of the
\* hyperplane of node paths[i][d, t] of level d at X[i][:, t], for every level
\* d in 0..depth-2 and every t; and the filter pairs omega[d, t] with R[d],
\* column paths[d, t] - 1, the hyperplane that draw was made for.
C12_OmegaIndexPairing ==
    \A i \in Traj :
        /\ TreeDone(i) =>
               \A d \in 0..(depth - 2) : \A col \in DOMAIN X[i] :
                   /\ omega[i][d][col][1] = "pgdraw"
                   /\ omega[i][d][col][2] = 1
                   /\ omega[i][d][col][3] =
                          <<"psi", R[d][paths[i][d][col] - 1], X[i][col]>>
        /\ \A col \in DOMAIN pgterms[i] : \A d \in DOMAIN pgterms[i][col] :
               LET g == pgterms[i][col][d]
               IN g[1] = "pg" =>
                      /\ g[3] = omega[i][d][col]
                      /\ g[4] = R[d][paths[i][d][col] - 1]
                      /\ g[3][3][2] = g[4]

\* Three levels, three columns: the filter has used the Polya-Gamma variable
\* of the second node of level 1.
C12_Witness ==
    /\ tpc = "done"
    /\ depth = 3
    /\ Cols(X[0]) = 3
    /\ \E col \in DOMAIN pgterms[0] :
           /\ pgterms[0][col][1][1] = "pg"
           /\ paths[0][1][col] = 2
           /\ pgterms[0][col][1][3][4] = 1 + 2 * col

\* C13: for every child node c taken from an internal node the filter's k
\* (+0.5 for odd c, -0.5 for even c) is the k = c % 2 - 0.5 of hyper_planes,
\* and a level whose next path entry is NaN adds no term to J or temp_mu.
C13_BranchSignAgrees ==
    \A i \in Traj : \A col \in DOMAIN pgterms[i] : \A d \in DOMAIN pgterms[i][col] :
        LET c == paths[i][d + 1][col]
            g == pgterms[i][col][d]
        IN /\ c = NaN => g = <<"skip">>
           /\ c # NaN =>
                  /\ g[1] = "pg"
                  /\ g[2] = (IF c % 2 = 1 THEN 1 ELSE 0 - 1)
                  /\ hk[i] # <<>> => hk[i][d][col] = <<"k2", g[2]>>

\* Both samplers have run on a tree of three levels: an odd child, an even
\* child and a path that ends above the last level.
C13_Witness ==
    /\ tpc = "done"
    /\ depth = 3
    /\ \E i \in Traj : \E col \in DOMAIN pgterms[i] :
           /\ pgterms[i][col][1] = <<"skip">>
           /\ hk[i][1][col] = <<"none">>
    /\ \A sign \in {1, 0 - 1} :
           \E i \in Traj : \E col \in DOMAIN pgterms[i] :
               /\ pgterms[i][col][1][1] = "pg"
               /\ pgterms[i][col][1][2] = sign
               /\ paths[i][2][col] \in 3..4
               /\ hk[i][1][col] = <<"k2", sign>>

(***************************************************************************)
(* The discrete sampler and the filter side by side: a run is a call of     *)
(* discrete_latent_recurrent_only or the calls of pg_kalman and             *)
(* pg_kalman_batch.                                                         *)
(***************************************************************************)

LabelsInit == KalInit \/ DiscInit
LabelsNext == KalNext \/ DiscNext
SpecLabels == LabelsInit /\ [][LabelsNext]_vars

FilterRuns == pc1 # "idle"

\* C14: Z[t] is the leaf of the step from t to t+1 everywhere. The discrete
\* sampler scores leaf k at index t with the transition from X[:, t] to
\* X[:, t+1]; forward step t of the filter predicts column t+1 with the A and
\* Q of leaf Z[t], backward step t smooths column t from the sampled column
\* t+1 with the A, Q and Qinv of leaf Z[t]; all three use U[:, t]; and the
\* filter's result does not depend on Z[T-1].
C14_LabelIsStepToNext ==
    /\ Scored =>
           \A k \in 0..(Cols(Qs) - 1) : \A col \in 0..(Cols(X[ScoredTraj]) - 2) :
               /\ log_p[k][col][3][2] = X[ScoredTraj][col + 1]
               /\ log_p[k][col][3][3] =
                      <<"mu_temp", As[k], X[ScoredTraj][col], U[ScoredTraj][col]>>
    /\ FilterRuns =>
           /\ \A col \in 0..(T1 - 2) :
                  LET z == Z1[col]
                  IN /\ WrittenP1(col + 1) =>
                            P1[col + 1][2][4] =
                                <<"P_prior", As[z], Lambdas1[col], Qs[z]>>
                     /\ X1[col + 1][1] = "corr" =>
                            X1[col + 1][2] =
                                <<"x_prior", As[z], alphas1[col], U[Sidx][col]>>
                     /\ X1[col][1] = "draw" =>
                            /\ X1[col][2] =
                                   <<"mu_n", <<"Pn", Lambdas1[col], As[z], Qs[z]>>,
                                     Lambdas1[col], alphas1[col], As[z],
                                     <<"Qinv", Qs[z]>>, X1[col + 1], U[Sidx][col]>>
                            /\ X1[col + 1][1] \in {"last", "draw"}
           /\ (cfg.variant = "zlast" /\ BatchEndedOn(Sidx)) =>
                  (X[Sidx] = X1 /\ RaisedAlike)

\* Both calls have returned; they were given labels that differ in the last
\* column only, and the labels of the first two steps differ.
C14_Witness ==
    /\ FilterRuns
    /\ pc = "done" /\ pc1 = "done"
    /\ cfg.variant = "zlast"
    /\ T1 = 3
    /\ Z1[2] # Z[Sidx][2]
    /\ Z1[0] # Z1[1]

\* C15: the samplers do not mutate what they condition on. No step of
\* pg_kalman, pg_kalman_batch or discrete_latent_recurrent_only changes As, Qs,
\* C, the caller's S, R, U, Y, omega or omegay, and no step of the filter
\* changes Z or paths; the discrete sampler's inverses are held apart from Qs;
\* with bern the S that entered the gain of step t of trajectory i is
\* diag(1 / omegay[i][:, t]) and nothing else; P[:, :, 0] is never written.
C15_ParametersNotMutated ==
    /\ [][/\ UNCHANGED <<As, Qs, C, S, R, U, Y, omega, omegay>>
          /\ FilterRuns => UNCHANGED <<Z, paths, Z1, paths1, omega1, R1>>]_vars
    /\ [](FilterRuns =>
            /\ P[0] = <<"P0">> /\ P1[0] = <<"P0">>
            /\ S = <<"S">>
            /\ cfg.bern =>
                 /\ \A col \in 0..(Cols(P) - 2) :
                        writer.P[col + 1] >= 0 =>
                            P[col + 1][2][2][4] =
                                <<"diag_inv", omegay[writer.P[col + 1]][col]>>
                 /\ \A col \in 0..(T1 - 2) :
                        WrittenP1(col + 1) =>
                            P1[col + 1][2][2][4] = <<"diag_inv", omegay[Sidx][col]>>)
    /\ [](dpc \notin {"idle", "start"} =>
            \A k \in DOMAIN Qs :
                /\ Qs[k] = <<"Qs", k>>
                /\ dQ.Qinv[k] = <<"inv", Qs[k]>>)

\* Both calls have returned from Bernoulli observations of two trajectories,
\* the longer of three columns; the filter's S is no longer the caller's.
C15_Witness ==
    /\ FilterRuns
    /\ pc = "done" /\ pc1 = "done"
    /\ cfg.bern
    /\ Cols(X[0]) = 3
    /\ writer.P[1] = 1
    /\ Sloc # S /\ Sloc1 # S

\* C16: what pg_kalman returns depends on the buffers it is handed only
\* through X[:, 0] and P[:, :, 0]. A call whose incoming X[:, 1:],
\* P[:, :, 1:], alphas and Lambdas differ from those of another call with the
\* same X[:, 0], P[:, :, 0], parameters, paths, Z, omega, observations and
\* innovations returns the same X; every column of X and P (t >= 1) a forward
\* step reads, and every column of alphas, Lambdas and X a backward step
\* reads, was written earlier in the same call.
C16_OnlyFirstColumnOfXMatters ==
    FilterRuns =>
        /\ (cfg.variant = "buffers" /\ BatchEndedOn(Sidx)) =>
               (X[Sidx] = X1 /\ RaisedAlike)
        /\ (pc1 = "forward" /\ t1 >= 1) =>
               /\ X1[t1] # XIn(BufFl, Sidx, T1)[t1]
               /\ WrittenP1(t1)
        /\ pc1 = "backward" =>
               /\ alphas1[t1] # AlphasIn(BufFl, Cols(alphas1))[t1]
               /\ WrittenL1(t1)
               /\ X1[t1 + 1][1] \in {"last", "draw"}

\* Both calls have returned from a trajectory of three columns in a tree of
\* two levels; every incoming column but the first differed.
C16_Witness ==
    /\ FilterRuns
    /\ pc = "done" /\ pc1 = "done"
    /\ cfg.variant = "buffers"
    /\ T1 = 3
    /\ depth = 2
    /\ \A col \in 1..2 : XIn(BufFl, Sidx, T1)[col] # XIn(0, Sidx, T1)[col]
    /\ X1 = X[Sidx]
====
